---- MODULE Spec2Model ----
(***************************************************************************)
(* Model of TempMailGenerator (src/temp_mail_generator.py): the HTTP fetch *)
(* client, the two provider branches, the 403 failover and the inbox       *)
(* cache.  A Python str is a sequence of atoms, so that concatenation and  *)
(* split('@') are computed and not assumed.                                *)
(***************************************************************************)
EXTENDS Integers, Sequences, FiniteSets, TLC

VARIABLES mail, now, last, url_fetch, session, cookies, inflight,
          wait, mailbox, users, keyreq, today, issued

vars == <<mail, now, last, url_fetch, session, cookies, inflight,
          wait, mailbox, users, keyreq, today, issued>>

\* the web clients and the requests being served
webVars == <<cookies, inflight>>

\* a wait_for_email() call and the mailbox upstream
waitVars == <<wait, mailbox>>

\* the users table, the /apikey/create requests being served, the calendar
\* day and the API keys issued on it
keyVars == <<users, keyreq, today, issued>>

\* the state a call on one object never touches
apart == <<webVars, waitVars, keyVars>>

-----------------------------------------------------------------------------
(* Bounds of the model *)

\* the clock stops advancing here
MaxTime == 12
\* seconds that pass in one step of the clock
TickStep == 6
\* calls the caller makes in one run
MaxCalls == 4
\* largest message id the upstream puts in a listing
MaxMsg == 1

\* the longest timeout of a wait_for_email() call, in seconds
MaxTimeout == 10

\* the calendar days a run lasts, and the /apikey/create requests made in it
MaxDay == 2

MaxKeyRequests == 4

-----------------------------------------------------------------------------
(* Values *)

\* Python's None, kept apart from every str and list of the model
None == <<"<None>">>

\* a JSON body that is neither the list nor the dict a caller tests for
NonStr == <<"<nonstr>">>

\* `not x` of Python for the str / None values of the model
Falsy(x) == x = None \/ x = <<>>

Truthy(x) == ~Falsy(x)

\* x or y
Or(x, y) == IF Truthy(x) THEN x ELSE y

\* a one-atom str
S(a) == <<a>>

\* f"{local}@{domain}"
Address(local, domain) == local \o <<"@">> \o domain

\* position of the first "@" at or after i, 0 when there is none
RECURSIVE FindAt(_, _)
FindAt(s, i) ==
    IF i > Len(s) THEN 0
    ELSE IF s[i] = "@" THEN i
    ELSE FindAt(s, i + 1)

\* s.split('@'): the pieces between the "@" atoms
RECURSIVE Split(_)
Split(s) ==
    LET p == FindAt(s, 1) IN
    IF p = 0 THEN <<s>>
    ELSE <<SubSeq(s, 1, p - 1)>> \o Split(SubSeq(s, p + 1, Len(s)))

\* '@' in s
HasAt(s) == FindAt(s, 1) # 0

-----------------------------------------------------------------------------
(* HTTP fetch client: _get_json *)

\* a parsed JSON value: a list, a dict or anything else; v holds the items
\* of a list, and of a dict the fields the callers read
JList(items) == [t |-> "list", v |-> items]

JDict(fields) == [t |-> "dict", v |-> fields]

JOther == [t |-> "other", v |-> <<>>]

\* the None _get_json returns on failure
JNone == [t |-> "none", v |-> <<>>]

\* isinstance(data, list), isinstance(data, dict)
IsList(data) == data.t = "list"

IsDict(data) == data.t = "dict"

\* self.last_http_status = None
NoStatus == 0

\* the statuses line 70 retries on
RetryStatuses == {403, 429, 500, 502, 503, 504}

\* range(3)
MaxAttempts == 3

\* time.sleep(1.5 * (attempt + 1)), in half seconds
Backoff(attempt) == 3 * (attempt + 1)

\* resp.raise_for_status(): HTTPError for 4xx and 5xx
RaisesForStatus(status) == status >= 400 /\ status < 600

\* one attempt of requests.get: a transport failure, or a response with a
\* status and a body that is JSON (json = TRUE, the value in data) or not
TransportError == [net |-> FALSE, status |-> NoStatus, json |-> FALSE, data |-> JNone]

Response(status, json, data) ==
    [net |-> TRUE, status |-> status, json |-> json, data |-> data]

\* ShouldRetry going on after every HTTP error
ShouldRetryAnyError(status, attempt) == attempt < 2

\* line 70: backoff and retry on 403/429/5xx while attempts remain
ShouldRetry(status, attempt) == status \in RetryStatuses /\ attempt < 2

\* RetryOnException going on while attempts remain
RetryOnExceptionWhileLeft(attempt) == attempt < 2

\* lines 75-78: an exception that is no HTTPError returns None at once
RetryOnException(attempt) == FALSE

\* the mark of one requests.get in the log of a fetch; a sleep is logged
\* by its length in half seconds
Request == 0

\* time.sleep(Backoff(attempt)) on the fetch so far
Sleep(st, attempt) ==
    [st EXCEPT !.slept = @ + Backoff(attempt), !.log = Append(@, Backoff(attempt))]

\* the for loop of _get_json from `attempt` on; outs[attempt + 1] is what
\* requests.get meets on that attempt; st carries last_http_status,
\* last_http_error, the attempts made, the time slept so far and the log of
\* requests and sleeps in order
RECURSIVE GetJsonLoop(_, _, _)
GetJsonLoop(outs, attempt, st) ==
    LET o == outs[attempt + 1]
        made == [st EXCEPT !.attempts = attempt + 1, !.log = Append(@, Request)]
    IN
    IF attempt >= MaxAttempts THEN [st EXCEPT !.data = JNone]
    ELSE IF ~o.net THEN
        \* except Exception: no response, the status of an earlier attempt stays
        LET err == [made EXCEPT !.error = TRUE] IN
        IF RetryOnException(attempt)
        THEN GetJsonLoop(outs, attempt + 1, err)
        ELSE [err EXCEPT !.data = JNone]
    ELSE
        LET seen == [made EXCEPT !.status = o.status]
            slept403 == IF o.status = 403 THEN Sleep(seen, attempt) ELSE seen
        IN
        IF RaisesForStatus(o.status) THEN
            \* except requests.HTTPError
            LET err == [slept403 EXCEPT !.error = TRUE] IN
            IF ShouldRetry(o.status, attempt)
            THEN GetJsonLoop(outs, attempt + 1, Sleep(err, attempt))
            ELSE [err EXCEPT !.data = JNone]
        ELSE IF o.json THEN [seen EXCEPT !.data = o.data]
        ELSE [seen EXCEPT !.data = JNone]

\* no fetch was made
NoFetch == [data |-> JNone, status |-> NoStatus, error |-> FALSE,
            attempts |-> 0, slept |-> 0, log |-> <<>>]

\* _get_json(url): the fields it resets, then the loop
GetJson(outs) == GetJsonLoop(outs, 0, NoFetch)

-----------------------------------------------------------------------------
(* The generator object *)

\* self._min_fetch_interval_sec
MinFetchInterval == 6

\* TempMailGenerator.__init__
NewGenerator ==
    [email |-> None, login |-> None, domain |-> None,
     last_http_status |-> NoStatus,
     last_inbox |-> <<>>, last_inbox_ts |-> 0,
     provider |-> "1secmail",
     mailtm_token |-> None, mailtm_address |-> None, mailtm_account_id |-> None]

\* what a method leaves behind: the object, the value returned (None when it
\* raised), whether an exception left the method, the requests it sent in
\* order, and the mail.tm account creations it started
Frame(m, ret, raised, calls, creates) ==
    [m |-> m, ret |-> ret, raised |-> raised, calls |-> calls, creates |-> creates]

\* n requests of the same kind
Repeat(call, n) == [i \in 1..n |-> call]

\* the fields _get_json writes on self
Fetched(m, r) == [m EXCEPT !.last_http_status = r.status]

-----------------------------------------------------------------------------
(* get_available_domains *)

\* GET https://api.mail.tm/domains read as in lines 100-104 and 235-238:
\* the domains of hydra:member, or an exception (ok = FALSE) for a
\* transport error, an error status, a non-JSON body or a JSON non-dict
MailtmDomains(dm) == IF dm.ok THEN dm.doms ELSE <<>>

\* DomainsOf answering a default domain when the fetch gave no list
DomainsOrDefault(data) == IF IsList(data) THEN data.v ELSE <<S("1secmail.com")>>

\* lines 95-97: the fetched list, or [] when the fetch gave no list
DomainsOf(data) == IF IsList(data) THEN data.v ELSE <<>>

get_available_domains(m, outs, dm) ==
    IF m.provider = "1secmail" THEN
        LET r == GetJson(outs) IN
        Frame(Fetched(m, r), DomainsOf(r.data),
              FALSE, Repeat("getDomainList", r.attempts), 0)
    ELSE
        Frame(m, MailtmDomains(dm), FALSE, <<"mailtm:domains">>, 0)

-----------------------------------------------------------------------------
(* mail.tm helpers *)

\* the three hardcoded domains of _fallback_1secmail_random
FallbackDomains == {S("1secmail.com"), S("1secmail.org"), S("1secmail.net")}

\* _fallback_1secmail_random with the username and domain random drew
fallback_1secmail_random(m, username, domain) ==
    [m EXCEPT !.login = username, !.domain = domain,
              !.email = Address(username, domain)]

\* acc.get("address") of the account the server answered with: the address
\* that was posted, no address, a str without "@", or a JSON non-str
AccountAddress(acc, address) ==
    CASE acc.addr = "echo"    -> address
      [] acc.addr = "missing" -> None
      [] acc.addr = "noat"    -> S("junk")
      [] acc.addr = "nonstr"  -> NonStr

\* StoreAccount with line 258 left out: the token is never stored
StoreAccountNoToken(m, acc, tok, address) ==
    LET a == AccountAddress(acc, address)
        m1 == [m EXCEPT !.mailtm_address = a,
                        !.mailtm_account_id = acc.id,
                        !.email = a]
    IN
    IF a = NonStr THEN [m |-> m1, raised |-> TRUE]
    ELSE
        [m |-> [m1 EXCEPT
                  !.login = IF Truthy(a) THEN Split(a)[1] ELSE None,
                  !.domain = IF Truthy(a) /\ HasAt(a) THEN Split(a)[2] ELSE None,
                  !.provider = "mailtm"],
         raised |-> FALSE]

\* lines 258-265, after both POSTs answered with a dict
StoreAccount(m, acc, tok, address) ==
    LET a == AccountAddress(acc, address)
        m1 == [m EXCEPT !.mailtm_token = tok.token,
                        !.mailtm_address = a,
                        !.mailtm_account_id = acc.id,
                        !.email = a]
    IN
    IF a = NonStr THEN
        \* line 262: .split on a non-str raises after four fields are set
        [m |-> m1, raised |-> TRUE]
    ELSE
        [m |-> [m1 EXCEPT
                  !.login = IF Truthy(a) THEN Split(a)[1] ELSE None,
                  !.domain = IF Truthy(a) /\ HasAt(a) THEN Split(a)[2] ELSE None,
                  !.provider = "mailtm"],
         raised |-> FALSE]

\* CreateFailed without line 269: the provider stays what it was
CreateFailedKeepsProvider(m, rnd, fdom, calls) ==
    Frame(fallback_1secmail_random(m, rnd, fdom),
          Address(rnd, fdom), FALSE, calls, 1)

\* the except branch of _mailtm_create_account
CreateFailed(m, rnd, fdom, calls) ==
    Frame(fallback_1secmail_random([m EXCEPT !.provider = "1secmail"], rnd, fdom),
          Address(rnd, fdom), FALSE, calls, 1)

\* _mailtm_create_account(custom_local, domain); dm, acc and tok are what
\* the three mail.tm requests meet, rnd the random local part, fdom the
\* random fallback domain
mailtm_create_account(m, custom_local, domain, dm, acc, tok, rnd, fdom) ==
    LET doms == MailtmDomains(dm)
        use_domain == Or(domain, IF doms # <<>> THEN doms[1] ELSE None)
        local == Or(custom_local, rnd)
        address == IF Truthy(use_domain) THEN Address(local, use_domain) ELSE None
        c1 == <<"mailtm:domains", "mailtm:accounts">>
        c2 == c1 \o <<"mailtm:token">>
    IN
    IF acc.kind # "dict" THEN CreateFailed(m, rnd, fdom, c1)
    ELSE IF tok.kind # "dict" THEN CreateFailed(m, rnd, fdom, c2)
    ELSE
        LET st == StoreAccount(m, acc, tok, address) IN
        IF st.raised THEN CreateFailed(st.m, rnd, fdom, c2)
        ELSE Frame(st.m, st.m.email, FALSE, c2, 1)

-----------------------------------------------------------------------------
(* Identity creation *)

\* line 113: if the provider blocks or there are no domains, go to mail.tm
SwitchOnDomains(domains, status) == domains = <<>> \/ status = 403

\* generate_random_email; username is what random.choices drew and pick
\* the index random.choice drew in the domain list
generate_random_email(m, outs, username, pick, dm, acc, tok, fdom) ==
    IF m.provider = "1secmail" THEN
        LET d == get_available_domains(m, outs, dm)
            domains == d.ret
            m1 == d.m
        IN
        IF SwitchOnDomains(domains, m1.last_http_status) THEN
            LET c == mailtm_create_account([m1 EXCEPT !.provider = "mailtm"],
                                           None, None, dm, acc, tok, username, fdom)
            IN [c EXCEPT !.calls = d.calls \o @]
        ELSE
            LET domain == domains[((pick - 1) % Len(domains)) + 1] IN
            Frame([m1 EXCEPT !.login = username, !.domain = domain,
                             !.email = Address(username, domain)],
                  Address(username, domain), FALSE, d.calls, 0)
    ELSE mailtm_create_account(m, None, None, dm, acc, tok, username, fdom)

\* generate_custom_email(username, domain)
generate_custom_email(m, username, domain, outs, dm, acc, tok, rnd, fdom) ==
    IF m.provider = "1secmail" THEN
        LET d == IF Falsy(domain)
                 THEN get_available_domains(m, outs, dm)
                 ELSE Frame(m, <<>>, FALSE, <<>>, 0)
            dom == IF Falsy(domain)
                   THEN (IF d.ret # <<>> THEN d.ret[1] ELSE S("1secmail.com"))
                   ELSE domain
        IN
        Frame([d.m EXCEPT !.login = username, !.domain = dom,
                          !.email = Address(username, dom)],
              Address(username, dom), FALSE, d.calls, 0)
    ELSE mailtm_create_account(m, username, domain, dm, acc, tok, rnd, fdom)

-----------------------------------------------------------------------------
(* Inbox listing and reading *)

\* NoIdentity never finding the identity missing
IdentityNotChecked(m) == FALSE

\* lines 140 and 196: not self.login or not self.domain
NoIdentity(m) == Falsy(m.login) \/ Falsy(m.domain)

\* Throttled with the comparison turned round
ThrottledInverted(m, t) == t - m.last_inbox_ts > MinFetchInterval

\* line 146: less than the minimum interval since the last stored fetch
Throttled(m, t) == t - m.last_inbox_ts < MinFetchInterval

\* self._mailtm_ensure_token(): the class defines no such method, so the
\* attribute lookup raises AttributeError and nothing is requested
mailtm_ensure_token(m) == [m |-> m, raised |-> TRUE, creates |-> 0]

\* SwitchOnListing taking every error status for a block
SwitchOnListingAnyError(status) == status >= 400

\* line 158: 1secmail is blocking
SwitchOnListing(status) == status = 403

\* ListingFailed dropping back to 1secmail when mail.tm fails
ListingFailedSwitchBack(m, calls, creates) ==
    Frame([m EXCEPT !.provider = "1secmail"], m.last_inbox, FALSE, calls, creates)

\* lines 185-192: the mail.tm listing raised; the cached list is returned
ListingFailed(m, calls, creates) == Frame(m, m.last_inbox, FALSE, calls, creates)

\* StoreListing merging the fetched messages into the cached ones
StoreListingMerged(m, items, t) ==
    [m EXCEPT !.last_inbox = items \o @, !.last_inbox_ts = t]

\* lines 153-154 and 182-183: the fetched list becomes the cache
StoreListing(m, items, t) ==
    [m EXCEPT !.last_inbox = items, !.last_inbox_ts = t]

\* lines 165-186, one GET https://api.mail.tm/messages with the token;
\* o is what the request meets
mailtm_list(m, t, o) ==
    LET e == IF Falsy(m.mailtm_token)
             THEN mailtm_ensure_token(m)
             ELSE [m |-> m, raised |-> FALSE, creates |-> 0]
    IN
    IF e.raised THEN ListingFailed(e.m, <<>>, e.creates)
    ELSE IF ~o.net THEN ListingFailed(e.m, <<"mailtm:messages">>, e.creates)
    ELSE
        LET m1 == [e.m EXCEPT !.last_http_status = o.status] IN
        IF RaisesForStatus(o.status) \/ ~o.json \/ ~IsDict(o.data) THEN
            ListingFailed(m1, <<"mailtm:messages">>, e.creates)
        ELSE
            LET m2 == StoreListing(m1, o.data.v, t) IN
            Frame(m2, m2.last_inbox, FALSE, <<"mailtm:messages">>, e.creates)

\* get_inbox at time t; outs is what the 1secmail fetch meets, o what the
\* mail.tm request meets
get_inbox(m, t, outs, o) ==
    IF NoIdentity(m) THEN Frame(m, <<>>, FALSE, <<>>, 0)
    ELSE IF Throttled(m, t) THEN Frame(m, m.last_inbox, FALSE, <<>>, 0)
    ELSE IF m.provider = "1secmail" THEN
        LET r == GetJson(outs)
            m1 == Fetched(m, r)
            calls == Repeat("getMessages", r.attempts)
        IN
        IF IsList(r.data) THEN
            LET m2 == StoreListing(m1, r.data.v, t) IN
            Frame(m2, m2.last_inbox, FALSE, calls, 0)
        ELSE IF SwitchOnListing(m1.last_http_status) THEN
            LET m2 == [m1 EXCEPT !.provider = "mailtm"] IN
            IF Falsy(m2.mailtm_token) THEN
                \* line 162 is outside every try: AttributeError leaves get_inbox
                LET e == mailtm_ensure_token(m2) IN
                IF e.raised THEN Frame(e.m, None, TRUE, calls, e.creates)
                ELSE Frame(e.m, e.m.last_inbox, FALSE, calls, e.creates)
            ELSE
                \* the else branch of line 164 is not entered: line 192
                Frame(m2, m2.last_inbox, FALSE, calls, 0)
        ELSE Frame(m1, m1.last_inbox, FALSE, calls, 0)
    ELSE mailtm_list(m, t, o)

\* the empty dict read_email returns when it has no message; the v of a
\* message dict holds the value of its 'id' and is empty when the dict has
\* no such key
NoMessage == JDict(<<>>)

\* the None of it.get('id') among the message ids
NoId == 0

\* lines 215-223: the dict built from the JSON object mail.tm answered
\* with; a field the object lacks is None
BuildMessage(it) == JDict(<<IF it.v # <<>> THEN it.v[1] ELSE NoId>>)

\* read_email(email_id); outs is what the 1secmail fetch meets, o what the
\* mail.tm request meets
read_email(m, outs, o) ==
    IF NoIdentity(m) THEN Frame(m, NoMessage, FALSE, <<>>, 0)
    ELSE IF m.provider = "1secmail" THEN
        LET r == GetJson(outs)
            calls == Repeat("readMessage", r.attempts)
        IN
        Frame(Fetched(m, r), IF IsDict(r.data) THEN r.data ELSE NoMessage,
              FALSE, calls, 0)
    ELSE
        LET e == IF Falsy(m.mailtm_token)
                 THEN mailtm_ensure_token(m)
                 ELSE [m |-> m, raised |-> FALSE, creates |-> 0]
        IN
        IF e.raised THEN
            Frame(e.m, NoMessage,
                  FALSE, <<>>, e.creates)
        ELSE IF ~o.net THEN
            Frame(e.m, NoMessage,
                  FALSE, <<"mailtm:message">>, e.creates)
        ELSE
            LET m1 == [e.m EXCEPT !.last_http_status = o.status] IN
            IF RaisesForStatus(o.status) \/ ~o.json \/ ~IsDict(o.data) THEN
                Frame(m1, NoMessage,
                      FALSE, <<"mailtm:message">>, e.creates)
            ELSE Frame(m1, BuildMessage(o.data), FALSE, <<"mailtm:message">>, e.creates)

-----------------------------------------------------------------------------
(* What the callers and the two upstream providers can supply *)

\* usernames a caller asks for, and local parts random.choices draws
CustomNames == {S("alice")}

RandomNames == {S("r1")}

\* newest first, as both providers list them: <<k, ..., 1>>
Newest(k) == [i \in 1..k |-> k + 1 - i]

\* the listings of a mailbox: empty, or holding every message up to MaxMsg
MsgLists == {<<>>, Newest(MaxMsg)}

\* one attempt at a 1secmail URL whose 2xx JSON bodies are `bodies`: no
\* response, an error status, a 2xx body that is not JSON, or a JSON body
Attempts(bodies) ==
    {TransportError}
    \cup {Response(st, FALSE, JNone) : st \in {403, 500}}
    \cup {Response(200, FALSE, JNone)}
    \cup {Response(200, TRUE, b) : b \in bodies}

\* what the three attempts of one fetch can meet: an answer at once, a
\* 403 and then no response or a JSON body, or the same error status to
\* the end; the attempts the loop never makes are fixed to TransportError
Runs(bodies) ==
    {outs \in [1..MaxAttempts -> Attempts(bodies)] :
        LET n == GetJson(outs).attempts IN
        /\ \A i \in 1..MaxAttempts : i > n => outs[i] = TransportError
        /\ n = 2 => /\ outs[1].status = 403
                    /\ ~outs[2].net \/ (outs[2].json /\ outs[2].data.v # <<>>)
        /\ n = MaxAttempts => \A i \in 1..MaxAttempts : outs[i] = outs[1]}

NoRun == [i \in 1..MaxAttempts |-> TransportError]

DomainBodies ==
    {JList(<<>>), JList(<<S("1secmail.com"), S("1secmail.org")>>), JOther}

DomainRuns == Runs(DomainBodies)

ListingRuns == Runs({JList(l) : l \in MsgLists} \cup {JOther})

\* a message, a JSON object that is none, a JSON non-object
ReadBodies == {JDict(<<1>>), JDict(<<>>), JOther}

ReadRuns == Runs(ReadBodies)

\* GET https://api.mail.tm/domains
MailtmDomainOutcomes ==
    {[ok |-> FALSE, doms |-> <<>>], [ok |-> TRUE, doms |-> <<S("mail.tm")>>]}

NoDomains == [ok |-> FALSE, doms |-> <<>>]

\* POST https://api.mail.tm/accounts: an exception (error status, transport
\* error, non-JSON body, JSON non-dict), or a dict with its address and id
AccountOutcomes ==
    {[kind |-> "fail", addr |-> "missing", id |-> None]}
    \cup {[kind |-> "dict", addr |-> a, id |-> S("acc1")] :
            a \in {"echo", "missing"}}

NoAccount == [kind |-> "fail", addr |-> "missing", id |-> None]

\* POST https://api.mail.tm/token
TokenOutcomes ==
    {[kind |-> "fail", token |-> None]}
    \cup {[kind |-> "dict", token |-> k] : k \in {S("tokA"), None}}

NoToken == [kind |-> "fail", token |-> None]

\* GET https://api.mail.tm/messages and /messages/{id}
MailtmAttempts(bodies) ==
    {TransportError}
    \cup {Response(st, FALSE, JNone) : st \in {403, 500}}
    \cup {Response(200, FALSE, JNone)}
    \cup {Response(200, TRUE, b) : b \in bodies}

MailtmListings == MailtmAttempts({JDict(l) : l \in MsgLists} \cup {JOther})

MailtmReads == MailtmAttempts(ReadBodies)

-----------------------------------------------------------------------------
(* The state machine: one generator object driven by a caller, as             *)
(* TempMailCLI drives self.mail                                               *)

\* POST /accounts answers with the account that was asked for and POST
\* /token with a token for it
UpstreamCreates(i) ==
    /\ i.dm.ok
    /\ i.acc.kind = "dict" /\ i.acc.addr = "echo"
    /\ i.tok.kind = "dict" /\ Truthy(i.tok.token)

\* the request of a mail.tm account creation that failed, "" when none did
\* or no creation was started
FailedAt(f, i) ==
    IF f.creates = 0 THEN ""
    ELSE IF i.acc.kind # "dict" THEN "mailtm:accounts"
    ELSE IF i.tok.kind # "dict" THEN "mailtm:token"
    ELSE ""

\* the record of a call on the object m0: its name and number, the provider
\* and whether a token was held when it began, the time it began, whether
\* it left another address in self.email than it found, what it left
\* behind, the list its 1secmail fetch delivered (JNone when it made no
\* fetch or got no list) with the status the fetch left, whether mail.tm
\* was ready to create an account, whether its domain list was served, and
\* the creation request that failed
CalledOn(m0, op, f, fetch, i) ==
    [op |-> op, n |-> last.n + 1,
     provider |-> m0.provider, had_token |-> Truthy(m0.mailtm_token),
     at |-> now, changed |-> f.m.email # m0.email,
     ret |-> f.ret, raised |-> f.raised,
     calls |-> f.calls, creates |-> f.creates,
     fetched |-> IF IsList(fetch.data) THEN fetch.data ELSE JNone,
     status |-> fetch.status,
     upstream_creates |-> UpstreamCreates(i),
     domains_ok |-> i.dm.ok,
     failed_at |-> FailedAt(f, i),
     listed |-> JNone]

\* the message list the listing request of a get_inbox() call was answered
\* with, JNone when it sent none or got no listing: the JSON list of
\* 1secmail, the "hydra:member" of the JSON object of mail.tm
Listed(f, outs, o) ==
    IF f.calls = <<>> THEN JNone
    ELSE IF f.calls[1] = "getMessages" THEN
        (IF IsList(GetJson(outs).data) THEN GetJson(outs).data ELSE JNone)
    ELSE IF f.calls[1] = "mailtm:messages" THEN
        (IF o.net /\ o.status = 200 /\ o.json /\ IsDict(o.data)
         THEN JList(o.data.v) ELSE JNone)
    ELSE JNone

\* the record of a call on self.mail
Called(op, f, fetch, i) == CalledOn(mail, op, f, fetch, i)

\* no method was called yet
NoCall ==
    [op |-> "init", n |-> 0,
     provider |-> "1secmail", had_token |-> FALSE,
     at |-> MinFetchInterval, changed |-> FALSE,
     ret |-> None, raised |-> FALSE, calls |-> <<>>, creates |-> 0,
     fetched |-> JNone, status |-> NoStatus,
     upstream_creates |-> FALSE, domains_ok |-> FALSE, failed_at |-> "",
     listed |-> JNone]

\* a fetch of the attempts outs, before _get_json ran
Pending(outs) == [outs |-> outs, done |-> FALSE, r |-> NoFetch]

\* the Flask session before anything was saved in it: session.get finds
\* no mail_* key
EmptySession ==
    [saved |-> FALSE, mail_email |-> None, mail_login |-> None,
     mail_domain |-> None, mail_provider |-> None, mail_token |-> None]

\* the browsers: two requests.Session() of verify_backend.py
Clients == {"c1", "c2"}

\* the requests the server can be handling at one time
Requests == {"a", "b"}

\* no request is being handled in this slot
Idle ==
    [pc |-> "idle", client |-> "c1", sess |-> EmptySession,
     modified |-> FALSE, wrote |-> EmptySession]

NoCookies == [c \in Clients |-> EmptySession]

NoRequests == [r \in Requests |-> Idle]

\* no wait_for_email() call was made
NotWaiting ==
    [pc |-> "idle", start |-> 0, timeout |-> 0, last_count |-> 0,
     ret |-> 0, raised |-> FALSE, grew |-> FALSE,
     polls |-> 0, polled_at |-> 0, held |-> 0]

\* the row of a user who never asked for an API key
NewUser == [api_key |-> 0, api_key_last_generated_at |-> 0,
            daily_api_key_count |-> 0]

\* no /apikey/create request is being handled in this slot
NoKeyRequest == [pc |-> "idle", user |-> NewUser, day |-> 0, count |-> 0,
                 seen |-> 0]

\* no web client, no wait and no API key request yet
ApartInit ==
    /\ cookies = NoCookies
    /\ inflight = NoRequests
    /\ wait = NotWaiting
    /\ mailbox = 0
    /\ users = NewUser
    /\ keyreq = [r \in Requests |-> NoKeyRequest]
    /\ today = 1
    /\ issued = [d \in 1..MaxDay |-> 0]

Init ==
    /\ ApartInit
    /\ mail = NewGenerator
    /\ now = MinFetchInterval
    /\ last = NoCall
    /\ url_fetch = Pending(NoRun)
    /\ session = EmptySession

\* time passes between two calls
Tick ==
    /\ now < MaxTime
    /\ now' = IF now + TickStep > MaxTime THEN MaxTime ELSE now + TickStep
    /\ UNCHANGED <<mail, last, url_fetch, session, apart>>

\* the inputs a mail.tm account creation reads; those it never reads are
\* fixed
MailtmInputs ==
    {i \in [dm : MailtmDomainOutcomes, acc : AccountOutcomes,
            tok : TokenOutcomes, fdom : FallbackDomains] :
        LET stored == i.acc.kind = "dict" /\ i.tok.kind = "dict" IN
        /\ i.acc.kind # "dict" => i.tok = NoToken /\ ~i.dm.ok
        /\ (i.acc.kind = "dict" /\ i.tok.kind # "dict")
              => i.acc.addr = "echo" /\ i.dm.ok /\ i.fdom = S("1secmail.net")
        /\ stored => i.dm.ok = (i.acc.addr = "echo")
        /\ (stored /\ i.acc.addr # "echo") => Truthy(i.tok.token)
        /\ (stored /\ i.acc.addr # "nonstr") => i.fdom = S("1secmail.com")}

NoMailtmInputs ==
    [dm |-> NoDomains, acc |-> NoAccount, tok |-> NoToken, fdom |-> S("1secmail.com")]

\* mail.tm creates the account and issues the token, or refuses the account
MailtmMainInputs ==
    {i \in MailtmInputs :
        UpstreamCreates(i) \/ (i.acc.kind # "dict" /\ i.fdom = S("1secmail.com"))}

\* the mail.tm inputs drawn after a domain fetch of 1secmail: all of them
\* when 1secmail was last seen blocking, the main ones after another failure
MailtmInputsAfter(outs) ==
    IF GetJson(outs).status = 403 THEN MailtmInputs ELSE MailtmMainInputs

GenerateRandom ==
    /\ last.n < MaxCalls
    /\ \E outs \in (IF mail.provider = "1secmail" THEN DomainRuns ELSE {NoRun}),
       username \in RandomNames :
        LET probe == generate_random_email(mail, outs, username, 1,
                        NoDomains, NoAccount, NoToken, S("1secmail.com"))
        IN
        \E i \in (IF probe.creates = 0 THEN {NoMailtmInputs}
                 ELSE IF mail.provider = "1secmail" THEN MailtmInputsAfter(outs)
                 ELSE MailtmInputs),
           pick \in (IF probe.creates > 0 THEN {1} ELSE {1, 2}) :
            LET f == generate_random_email(mail, outs, username, pick,
                                           i.dm, i.acc, i.tok, i.fdom)
            IN
            /\ mail' = f.m
            /\ last' = Called("generate_random_email", f,
                              IF mail.provider = "1secmail" THEN GetJson(outs)
                              ELSE NoFetch, i)
            /\ UNCHANGED <<now, url_fetch, session, apart>>

GenerateCustom ==
    /\ last.n < MaxCalls
    /\ \E username \in CustomNames,
       domain \in {None, S("1secmail.org")} :
       \E outs \in (IF mail.provider = "1secmail" /\ Falsy(domain)
                 THEN DomainRuns ELSE {NoRun}),
       i \in (IF mail.provider = "1secmail" THEN {NoMailtmInputs} ELSE MailtmInputs),
       rnd \in (IF mail.provider = "1secmail" THEN {S("r1")} ELSE RandomNames) :
        LET f == generate_custom_email(mail, username, domain, outs,
                                       i.dm, i.acc, i.tok, rnd, i.fdom)
        IN
        /\ mail' = f.m
        /\ last' = Called("generate_custom_email", f,
                          IF mail.provider = "1secmail" /\ Falsy(domain)
                          THEN GetJson(outs) ELSE NoFetch, i)
        /\ UNCHANGED <<now, url_fetch, session, apart>>

GetInbox ==
    /\ last.n < MaxCalls
    /\ \E outs \in (IF get_inbox(mail, now, NoRun, TransportError).calls = <<>>
                    \/ mail.provider # "1secmail"
                 THEN {NoRun} ELSE ListingRuns),
       o \in (IF get_inbox(mail, now, NoRun, TransportError).calls = <<>>
                 \/ mail.provider # "mailtm"
              THEN {TransportError} ELSE MailtmListings) :
        LET f == get_inbox(mail, now, outs, o) IN
        /\ mail' = f.m
        /\ last' = [Called("get_inbox", f,
                          IF f.calls # <<>> /\ mail.provider = "1secmail"
                          THEN GetJson(outs) ELSE NoFetch, NoMailtmInputs)
                   EXCEPT !.listed = Listed(f, outs, o)]
        /\ UNCHANGED <<now, url_fetch, session, apart>>

ReadEmail ==
    /\ last.n < MaxCalls
    /\ \E outs \in (IF read_email(mail, NoRun, TransportError).calls = <<>>
                    \/ mail.provider # "1secmail"
                 THEN {NoRun} ELSE ReadRuns),
       o \in (IF read_email(mail, NoRun, TransportError).calls = <<>>
                 \/ mail.provider # "mailtm"
              THEN {TransportError} ELSE MailtmReads) :
        LET f == read_email(mail, outs, o) IN
        /\ mail' = f.m
        /\ last' = Called("read_email", f,
                          IF f.calls # <<>> /\ mail.provider = "1secmail"
                          THEN GetJson(outs) ELSE NoFetch, NoMailtmInputs)
        /\ UNCHANGED <<now, url_fetch, session, apart>>

GetAvailableDomains ==
    /\ last.n < MaxCalls
    /\ \E outs \in (IF mail.provider = "1secmail" THEN DomainRuns ELSE {NoRun}),
       dm \in (IF mail.provider = "1secmail" THEN {NoDomains}
               ELSE MailtmDomainOutcomes) :
        LET f == get_available_domains(mail, outs, dm) IN
        /\ mail' = f.m
        /\ last' = Called("get_available_domains", f,
                          IF mail.provider = "1secmail" THEN GetJson(outs)
                          ELSE NoFetch, [NoMailtmInputs EXCEPT !.dm = dm])
        /\ UNCHANGED <<now, url_fetch, session, apart>>

Next ==
    \/ Tick
    \/ GenerateRandom
    \/ GenerateCustom
    \/ GetInbox
    \/ ReadEmail
    \/ GetAvailableDomains

Spec == Init /\ [][Next]_vars

TypeOK ==
    /\ mail.provider \in {"1secmail", "mailtm"}
    /\ now \in MinFetchInterval..MaxTime

-----------------------------------------------------------------------------
(* The web application (src/main.py): every request rebuilds the object    *)
(* from the Flask session, calls one method and, on some routes, saves     *)
(* the object back                                                         *)

\* save_mail_to_session(m): the five keys it writes
save_mail_to_session(m) ==
    [saved |-> TRUE, mail_email |-> m.email, mail_login |-> m.login,
     mail_domain |-> m.domain, mail_provider |-> m.provider,
     mail_token |-> m.mailtm_token]

\* get_mail_instance(): a new object with five fields read from the
\* session; session.get answers None for a key that was never saved, and
\* "1secmail" for mail_provider
get_mail_instance(sess) ==
    [NewGenerator EXCEPT
        !.email = sess.mail_email,
        !.login = sess.mail_login,
        !.domain = sess.mail_domain,
        !.provider = IF sess.saved THEN sess.mail_provider ELSE "1secmail",
        !.mailtm_token = sess.mail_token]

\* mail = get_mail_instance() at the head of a route
Restored == get_mail_instance(session)

\* POST /generate/random
PostGenerateRandom ==
    /\ last.n < MaxCalls
    /\ \E outs \in (IF Restored.provider = "1secmail" THEN DomainRuns ELSE {NoRun}),
       username \in RandomNames :
        LET probe == generate_random_email(Restored, outs, username, 1,
                        NoDomains, NoAccount, NoToken, S("1secmail.com"))
        IN
        \E i \in (IF probe.creates = 0 THEN {NoMailtmInputs}
                 ELSE IF Restored.provider = "1secmail" THEN MailtmInputsAfter(outs)
                 ELSE MailtmInputs),
           pick \in (IF probe.creates > 0 THEN {1} ELSE {1, 2}) :
            LET f == generate_random_email(Restored, outs, username, pick,
                                           i.dm, i.acc, i.tok, i.fdom)
            IN
            /\ mail' = f.m
            /\ last' = CalledOn(Restored, "generate_random_email", f,
                              IF Restored.provider = "1secmail" THEN GetJson(outs)
                              ELSE NoFetch, i)
            /\ session' = save_mail_to_session(f.m)
            /\ UNCHANGED <<now, url_fetch, apart>>

\* data.get("username") of POST /generate/custom: any non-empty str the
\* client sends, one holding an "@" included
FormNames == CustomNames \cup {<<"a", "@", "b">>}

\* POST /generate/custom by a logged-in user whose plan allows it, with a
\* username
PostGenerateCustom ==
    /\ last.n < MaxCalls
    /\ \E username \in FormNames,
       domain \in {None, S("1secmail.org")} :
       \E outs \in (IF Restored.provider = "1secmail" /\ Falsy(domain)
                 THEN DomainRuns ELSE {NoRun}),
       i \in (IF Restored.provider = "1secmail" THEN {NoMailtmInputs} ELSE MailtmInputs),
       rnd \in (IF Restored.provider = "1secmail" THEN {S("r1")} ELSE RandomNames) :
        LET f == generate_custom_email(Restored, username, domain, outs,
                                       i.dm, i.acc, i.tok, rnd, i.fdom)
        IN
        /\ mail' = f.m
        /\ last' = CalledOn(Restored, "generate_custom_email", f,
                          IF Restored.provider = "1secmail" /\ Falsy(domain)
                          THEN GetJson(outs) ELSE NoFetch, i)
        /\ session' = save_mail_to_session(f.m)
        /\ UNCHANGED <<now, url_fetch, apart>>

\* GET /inbox; when get_inbox raises, the route ends before line 89 saves
GetInboxRoute ==
    /\ last.n < MaxCalls
    /\ \E outs \in (IF get_inbox(Restored, now, NoRun, TransportError).calls = <<>>
                    \/ Restored.provider # "1secmail"
                 THEN {NoRun} ELSE ListingRuns),
       o \in (IF get_inbox(Restored, now, NoRun, TransportError).calls = <<>>
                 \/ Restored.provider # "mailtm"
              THEN {TransportError} ELSE MailtmListings) :
        LET f == get_inbox(Restored, now, outs, o) IN
        /\ mail' = f.m
        /\ last' = [CalledOn(Restored, "get_inbox", f,
                          IF f.calls # <<>> /\ Restored.provider = "1secmail"
                          THEN GetJson(outs) ELSE NoFetch, NoMailtmInputs)
                   EXCEPT !.listed = Listed(f, outs, o)]
        /\ session' = IF f.raised THEN session ELSE save_mail_to_session(f.m)
        /\ UNCHANGED <<now, url_fetch, apart>>

\* GET /read/<email_id>
GetReadRoute ==
    /\ last.n < MaxCalls
    /\ \E outs \in (IF read_email(Restored, NoRun, TransportError).calls = <<>>
                    \/ Restored.provider # "1secmail"
                 THEN {NoRun} ELSE ReadRuns),
       o \in (IF read_email(Restored, NoRun, TransportError).calls = <<>>
                 \/ Restored.provider # "mailtm"
              THEN {TransportError} ELSE MailtmReads) :
        LET f == read_email(Restored, outs, o) IN
        /\ mail' = f.m
        /\ last' = CalledOn(Restored, "read_email", f,
                          IF f.calls # <<>> /\ Restored.provider = "1secmail"
                          THEN GetJson(outs) ELSE NoFetch, NoMailtmInputs)
        /\ UNCHANGED <<now, url_fetch, session, apart>>

\* GET /domains
GetDomainsRoute ==
    /\ last.n < MaxCalls
    /\ \E outs \in (IF Restored.provider = "1secmail" THEN DomainRuns ELSE {NoRun}),
       dm \in (IF Restored.provider = "1secmail" THEN {NoDomains}
               ELSE MailtmDomainOutcomes) :
        LET f == get_available_domains(Restored, outs, dm) IN
        /\ mail' = f.m
        /\ last' = CalledOn(Restored, "get_available_domains", f,
                          IF Restored.provider = "1secmail" THEN GetJson(outs)
                          ELSE NoFetch, [NoMailtmInputs EXCEPT !.dm = dm])
        /\ UNCHANGED <<now, url_fetch, session, apart>>

SessionNext ==
    \/ Tick
    \/ PostGenerateRandom
    \/ PostGenerateCustom
    \/ GetInboxRoute
    \/ GetReadRoute
    \/ GetDomainsRoute

SessionSpec == Init /\ [][SessionNext]_vars

-----------------------------------------------------------------------------
(* Requests of several clients served at the same time. Flask keeps the   *)
(* session in a signed cookie: a request works on the session its cookie  *)
(* carried, and the response hands the client the session it wrote        *)

\* a fetch answered at once with a JSON list that is not empty, or refused
\* with 403 to the end
Refused == [i \in 1..MaxAttempts |-> Response(403, FALSE, JNone)]

Answered(runs) ==
    {outs \in runs : /\ GetJson(outs).attempts = 1
                     /\ IsList(GetJson(outs).data)
                     /\ GetJson(outs).data.v # <<>>}

WebDomainRuns == Answered(DomainRuns) \cup {Refused}

WebListingRuns == Answered(ListingRuns) \cup {Refused}

WebReadRuns == Answered(ReadRuns) \cup {Refused}

\* mail.tm creating the account that is asked for
WebMailtmInputs == {i \in MailtmInputs : UpstreamCreates(i)}

\* what a route's method can leave behind on the object m0
RouteOutcomes(route, m0) ==
    CASE route = "generate_random" ->
           {generate_random_email(m0, outs, username, 1,
                                  i.dm, i.acc, i.tok, i.fdom) :
              outs \in (IF m0.provider = "1secmail" THEN WebDomainRuns
                        ELSE {NoRun}),
              username \in RandomNames, i \in WebMailtmInputs}
      [] route = "generate_custom" ->
           {generate_custom_email(m0, username, None, outs,
                                  i.dm, i.acc, i.tok, S("r1"), i.fdom) :
              outs \in (IF m0.provider = "1secmail" THEN WebDomainRuns
                        ELSE {NoRun}),
              username \in CustomNames, i \in WebMailtmInputs}
      [] route = "inbox" ->
           {get_inbox(m0, now, outs, o) :
              outs \in (IF m0.provider = "1secmail" THEN WebListingRuns
                        ELSE {NoRun}),
              o \in {TransportError,
                     Response(200, TRUE, JDict(Newest(MaxMsg)))}}
      [] route = "read" ->
           {read_email(m0, outs, o) :
              outs \in (IF m0.provider = "1secmail" THEN WebReadRuns
                        ELSE {NoRun}),
              o \in {TransportError, Response(200, TRUE, JDict(<<1>>))}}
      [] route = "domains" ->
           {get_available_domains(m0, outs, dm) :
              outs \in (IF m0.provider = "1secmail" THEN WebDomainRuns
                        ELSE {NoRun}),
              dm \in MailtmDomainOutcomes}

Routes == {"generate_random", "generate_custom", "inbox", "read", "domains"}

\* the routes that call save_mail_to_session(mail) after the method
SavingRoutes == {"generate_random", "generate_custom", "inbox"}

\* the session after save_mail_to_session wrote its keys into it, keeping
\* the token it held
SavedKeepingToken(sess, m) ==
    [save_mail_to_session(m) EXCEPT !.mail_token = sess.mail_token]

\* the session after save_mail_to_session(m) wrote its keys into it
Saved(sess, m) == save_mail_to_session(m)

\* one store for every client
StoreShared(jar, c, sess) == [d \in Clients |-> sess]

\* the client c keeps the cookie of the response
StoreCookie(jar, c, sess) == [jar EXCEPT ![c] = sess]

\* the server handles a request of the client c in the slot r: the session
\* is opened from the cookie sent, the object is rebuilt from it, the
\* method runs, and the saving routes write the object into the session
\* unless the method raised; wrote records the five fields the object held
\* when it was saved
Handle(r) ==
    /\ inflight[r].pc = "idle"
    /\ \E c \in Clients, route \in Routes :
        \E f \in RouteOutcomes(route, get_mail_instance(cookies[c])) :
            LET saves == route \in SavingRoutes /\ ~f.raised IN
            inflight' = [inflight EXCEPT ![r] =
                [pc |-> "handled", client |-> c,
                 sess |-> IF saves THEN Saved(cookies[c], f.m) ELSE cookies[c],
                 modified |-> saves,
                 wrote |-> IF saves THEN save_mail_to_session(f.m)
                           ELSE cookies[c]]]
    /\ UNCHANGED <<mail, now, last, url_fetch, session, cookies, waitVars, keyVars>>

\* the response reaches the client: Set-Cookie carries the session when
\* the request modified it
Respond(r) ==
    /\ inflight[r].pc = "handled"
    /\ cookies' = IF inflight[r].modified
                  THEN StoreCookie(cookies, inflight[r].client, inflight[r].sess)
                  ELSE cookies
    /\ inflight' = [inflight EXCEPT ![r] = Idle]
    /\ UNCHANGED <<mail, now, last, url_fetch, session, waitVars, keyVars>>

WebNext == \E r \in Requests : Handle(r) \/ Respond(r)

WebSpec == Init /\ [][WebNext]_vars

-----------------------------------------------------------------------------
(* wait_for_email: the polling loop of lines 300-319 on one object, with   *)
(* the messages of the mailbox arriving upstream while it runs             *)

\* check_interval: int = 5, in seconds
CheckInterval == 5

\* the timeouts a caller asks for, in seconds
Timeouts == {CheckInterval, MaxTimeout}

\* the seconds a get_inbox() call of the loop takes
PollTimes == {0, 1}

\* return None
NoMail == 0

\* an object holding a 1secmail identity, and one holding a mail.tm
\* identity with its token
OnOneSecMail == fallback_1secmail_random(NewGenerator, S("r1"), S("1secmail.com"))

OnMailtm ==
    StoreAccount(NewGenerator,
                 [kind |-> "dict", addr |-> "echo", id |-> S("acc1")],
                 [kind |-> "dict", token |-> S("tokA")],
                 Address(S("r1"), S("mail.tm"))).m

\* what a listing request of either provider can meet while the mailbox
\* holds k messages
ListingRunsOf(k) ==
    {outs \in ListingRuns :
        \A i \in 1..MaxAttempts :
            IsList(outs[i].data) => outs[i].data.v = Newest(k)}

MailtmListingsOf(k) ==
    {o \in MailtmListings : IsDict(o.data) => o.data.v = Newest(k)}

WaitInit ==
    /\ ApartInit
    /\ mail \in {OnOneSecMail, OnMailtm}
    /\ now = MinFetchInterval
    /\ last = NoCall
    /\ url_fetch = Pending(NoRun)
    /\ session = EmptySession

\* the messages of the mailbox arrive upstream
Arrive ==
    /\ mailbox = 0
    /\ wait.pc # "done"
    /\ mailbox' = MaxMsg
    /\ UNCHANGED <<mail, now, last, url_fetch, session, wait, webVars, keyVars>>

\* a get_inbox() call made before the wait, which fills the cache
PollBefore ==
    /\ wait.pc = "idle"
    /\ mail.last_inbox_ts = 0
    /\ \E outs \in (IF mail.provider = "1secmail" THEN ListingRunsOf(mailbox)
                     ELSE {NoRun}),
          o \in (IF mail.provider = "mailtm" THEN MailtmListingsOf(mailbox)
                  ELSE {TransportError}) :
          LET f == get_inbox(mail, now, outs, o) IN
          ~f.raised /\ mail' = f.m
    /\ UNCHANGED <<now, last, url_fetch, session, wait, mailbox, webVars, keyVars>>

\* line 307: time.time() - start_time < timeout is false
DeadlinePassed(start, timeout, t) == ~(t - start < timeout)

\* lines 304-305: start_time = time.time(); last_count = 0
WaitBegin ==
    /\ wait.pc = "idle"
    /\ \E timeout \in Timeouts :
          wait' = [NotWaiting EXCEPT !.pc = "loop", !.start = now,
                                     !.timeout = timeout, !.held = mailbox]
    /\ UNCHANGED <<mail, now, last, url_fetch, session, mailbox, webVars, keyVars>>

\* one turn of the loop, lines 307-316: get_inbox(), then return inbox[0]
\* when the list is longer than last_count, else sleep check_interval; an
\* exception of get_inbox() leaves wait_for_email
WaitPoll ==
    /\ wait.pc = "loop"
    /\ ~DeadlinePassed(wait.start, wait.timeout, now)
    /\ \E outs \in (IF mail.provider = "1secmail" THEN ListingRunsOf(mailbox)
                     ELSE {NoRun}),
          o \in (IF mail.provider = "mailtm" THEN MailtmListingsOf(mailbox)
                  ELSE {TransportError}),
          d \in PollTimes :
          LET f == get_inbox(mail, now, outs, o)
              polled == [wait EXCEPT !.polls = @ + 1, !.polled_at = now]
          IN
          /\ mail' = f.m
          /\ IF f.raised THEN
                 /\ wait' = [polled EXCEPT !.pc = "done", !.raised = TRUE]
                 /\ now' = now + d
             ELSE IF Len(f.ret) > wait.last_count THEN
                 /\ wait' = [polled EXCEPT !.pc = "done", !.grew = TRUE,
                                            !.ret = f.ret[1]]
                 /\ now' = now + d
             ELSE
                 /\ wait' = [polled EXCEPT !.last_count = Len(f.ret)]
                 /\ now' = now + d + CheckInterval
    /\ UNCHANGED <<last, url_fetch, session, mailbox, webVars, keyVars>>

\* lines 318-319: the loop ends, return None
WaitTimeout ==
    /\ wait.pc = "loop"
    /\ DeadlinePassed(wait.start, wait.timeout, now)
    /\ wait' = [wait EXCEPT !.pc = "done", !.ret = NoMail]
    /\ UNCHANGED <<mail, now, last, url_fetch, session, mailbox, webVars, keyVars>>

WaitNext ==
    \/ Arrive
    \/ PollBefore
    \/ WaitBegin
    \/ WaitPoll
    \/ WaitTimeout

WaitSpec == WaitInit /\ [][WaitNext]_vars

-----------------------------------------------------------------------------
(* POST /apikey/create of one paid-plan user (src/main.py 223-245), with   *)
(* the requests the threaded server handles at the same time              *)

\* `count >= 2` of line 236
DailyLimit == 2

\* the keys issued so far, on any day
IssuedInAll == LET Sum[d \in 0..MaxDay] == IF d = 0 THEN 0 ELSE Sum[d - 1] + issued[d]
               IN Sum[MaxDay]

\* the /apikey/create requests begun so far that are not yet answered
Unanswered == Cardinality({r \in Requests : keyreq[r].pc # "idle"})

\* datetime.date.today() moves on
NextDay ==
    /\ today < MaxDay
    /\ today' = today + 1
    /\ UNCHANGED <<mail, now, last, url_fetch, session, users, keyreq, issued,
                   webVars, waitVars>>

\* line 236: last_date == today and count >= 2
LimitReached(last_date, day, count) == last_date = day /\ count >= DailyLimit

\* lines 225-232: user = find_user_by_id(int(uid)), the row as it is now;
\* seen is the number of keys already issued today
KeyFind(r) ==
    /\ keyreq[r].pc = "idle"
    /\ IssuedInAll + Unanswered < MaxKeyRequests
    /\ keyreq' = [keyreq EXCEPT ![r] =
                    [NoKeyRequest EXCEPT !.pc = "found", !.user = users,
                                         !.seen = issued[today]]]
    /\ UNCHANGED <<mail, now, last, url_fetch, session, users, today, issued,
                   webVars, waitVars>>

\* lines 233-241: today is read, the limit is tested on the row that was
\* found (429 ends the request), the count starts again on a new day and is
\* raised by one
KeyCheck(r) ==
    /\ keyreq[r].pc = "found"
    /\ LET u == keyreq[r].user
           last_date == u.api_key_last_generated_at
           count == u.daily_api_key_count
       IN
       keyreq' = [keyreq EXCEPT ![r] =
           IF LimitReached(last_date, today, count) THEN NoKeyRequest
           ELSE [@ EXCEPT !.pc = "checked", !.day = today,
                          !.count = (IF last_date # today THEN 0 ELSE count) + 1]]
    /\ UNCHANGED <<mail, now, last, url_fetch, session, users, today, issued,
                   webVars, waitVars>>

\* lines 242-245 and db.py 124-136: one UPDATE writes key, date and count;
\* when it succeeds the key is handed out, when it fails nothing is stored
KeyUpdate(r) ==
    /\ keyreq[r].pc = "checked"
    /\ \E ok \in BOOLEAN :
        /\ users' = IF ok
                    THEN [api_key |-> IssuedInAll + 1,
                          api_key_last_generated_at |-> keyreq[r].day,
                          daily_api_key_count |-> keyreq[r].count]
                    ELSE users
        /\ issued' = IF ok THEN [issued EXCEPT ![keyreq[r].day] = @ + 1]
                     ELSE issued
    /\ keyreq' = [keyreq EXCEPT ![r] = NoKeyRequest]
    /\ UNCHANGED <<mail, now, last, url_fetch, session, today, webVars, waitVars>>

KeyNext ==
    \/ NextDay
    \/ \E r \in Requests : KeyFind(r) \/ KeyCheck(r) \/ KeyUpdate(r)

KeySpec == Init /\ [][KeyNext]_vars

-----------------------------------------------------------------------------
(* One _get_json call on its own, for every run of three attempts *)

\* statuses a fetch can meet: success, the retried ones and one that is not
FetchErrorStatuses == {403, 404, 429, 500}

FetchAttempts ==
    {TransportError}
    \cup {Response(st, FALSE, JNone) : st \in FetchErrorStatuses}
    \cup {Response(200, FALSE, JNone), Response(200, TRUE, JList(<<>>))}

FetchRuns == [1..MaxAttempts -> FetchAttempts]

FetchInit ==
    /\ ApartInit
    /\ mail = NewGenerator
    /\ now = MinFetchInterval
    /\ last = NoCall
    /\ url_fetch \in {Pending(outs) : outs \in FetchRuns}
    /\ session = EmptySession

\* self._get_json(url)
FetchUrl ==
    /\ ~url_fetch.done
    /\ url_fetch' = [url_fetch EXCEPT !.done = TRUE, !.r = GetJson(url_fetch.outs)]
    /\ UNCHANGED <<mail, now, last, session, apart>>

FetchNext == FetchUrl

FetchSpec == FetchInit /\ [][FetchNext]_vars

-----------------------------------------------------------------------------
(* Helpers of the properties *)

\* the requests of one kind among those a call sent
CallsOf(kind) == SelectSeq(last.calls, LAMBDA c : c = kind)

\* an identity is set: get_inbox and read_email pass their first test
IdentitySet == Truthy(mail.login) /\ Truthy(mail.domain)

\* a is a non-empty str local@domain with both parts non-empty
IsAddress(a) ==
    /\ a # None
    /\ Len(Split(a)) = 2
    /\ Split(a)[1] # <<>>
    /\ Split(a)[2] # <<>>

\* the last call was get_inbox on 1secmail and its listing fetch ended
\* without a list, the last status being 403
ListingBlocked ==
    /\ last.op = "get_inbox"
    /\ last.provider = "1secmail"
    /\ Len(CallsOf("getMessages")) > 0
    /\ ~IsList(last.fetched)
    /\ last.status = 403

-----------------------------------------------------------------------------
(* Properties *)

\* C1: get_inbox() called with an identity set never raises, whatever the
\* upstream answers: it returns the cached list (the fetched list when the
\* fetch succeeded, which is then the cached one).
C1_GetInboxNeverRaises ==
    (last.op = "get_inbox" /\ IdentitySet)
        => (~last.raised /\ last.ret = mail.last_inbox)

\* C2: when get_inbox() on 1secmail ends its listing fetch on a 403, the
\* same call makes the provider mail.tm, creates a mail.tm identity if no
\* token was held, and sends exactly one listing request to mail.tm before
\* it returns.
C2_FailoverRetriesOnce ==
    ListingBlocked
        => /\ mail.provider = "mailtm"
           /\ ~last.raised
           /\ (~last.had_token => last.creates = 1)
           /\ Len(CallsOf("mailtm:messages")) = 1

\* C3: generate_random_email() and generate_custom_email() never raise and
\* always return a non-empty address local@domain.
C3_GenerateReturnsAddress ==
    last.op \in {"generate_random_email", "generate_custom_email"}
        => (~last.raised /\ IsAddress(last.ret))

\* the next step is a call of get_inbox
GetInboxStep == last'.n = last.n + 1 /\ last'.op = "get_inbox"

\* C4: the identity change invalidates the cache: a get_inbox() call that
\* directly follows a call which changed the address returns no message
\* but those it fetched itself.
C4_CacheFollowsIdentity ==
    [][(last.changed /\ GetInboxStep /\ ~last'.raised /\ last'.ret # <<>>)
          => (last'.calls # <<>> /\ mail'.last_inbox_ts = now)]_vars

\* C5 as stated: of two get_inbox() calls for the same identity less than 6
\* seconds apart, the second sends no request and returns the list the
\* first returned.
C5_SecondCallWithinInterval ==
    [][(/\ last.op = "get_inbox" /\ ~last.raised
        /\ IdentitySet
        /\ GetInboxStep
        /\ now' - last.at < MinFetchInterval)
          => (last'.calls = <<>> /\ last'.ret = last.ret)]_vars

\* C5, amended: a get_inbox() call with an identity set that begins less
\* than 6 seconds after the beginning of the last call that fetched a
\* listing successfully sends no request, changes nothing and returns the
\* list that call stored.
C5_ThrottledAfterSuccess ==
    [][(/\ GetInboxStep
        /\ IdentitySet
        /\ now - mail.last_inbox_ts < MinFetchInterval)
          => (/\ last'.calls = <<>>
              /\ ~last'.raised
              /\ last'.ret = mail.last_inbox
              /\ mail' = mail)]_vars

C5_Witness ==
    /\ last.op = "get_inbox"
    /\ IdentitySet
    /\ last.at - mail.last_inbox_ts < MinFetchInterval
    /\ last.calls = <<>>
    /\ last.ret = Newest(MaxMsg)

\* the last call found the provider on 1secmail and left it on mail.tm
SwitchedToMailtm == last.provider = "1secmail" /\ mail.provider = "mailtm"

\* the domain list the last call fetched was empty or no list at all
NoDomainsFetched == ~IsList(last.fetched) \/ last.fetched.v = <<>>

\* C6 as stated: a call takes the provider from 1secmail to mail.tm only
\* when the last observed status is 403: identity creation with an empty
\* domain list and a 403, get_inbox() after a listing that failed on a 403.
C6_SwitchOnlyOn403 ==
    SwitchedToMailtm
        => \/ /\ last.op \in {"generate_random_email", "generate_custom_email"}
              /\ NoDomainsFetched
              /\ last.status = 403
           \/ /\ last.op = "get_inbox"
              /\ ~IsList(last.fetched)
              /\ last.status = 403

\* C6, amended: a call takes the provider from 1secmail to mail.tm only if
\* it is generate_random_email() and the domain list came back empty
\* (whatever the status) or the last status was 403, or it is get_inbox()
\* and the listing fetch gave no list and the last observed status was 403.
C6_SwitchOnlyWhen ==
    SwitchedToMailtm
        => \/ /\ last.op = "generate_random_email"
              /\ (NoDomainsFetched \/ last.status = 403)
           \/ /\ last.op = "get_inbox"
              /\ ~IsList(last.fetched)
              /\ last.status = 403

C6_Witness ==
    /\ last.op = "generate_random_email"
    /\ last.provider = "1secmail"
    /\ mail.provider = "mailtm"
    /\ last.status = 500

\* the last call was generate_random_email() on 1secmail, its domain fetch
\* made three attempts and ended on a 403, and mail.tm created the account
\* and issued the token
BlockedThenCreated ==
    /\ last.op = "generate_random_email"
    /\ last.provider = "1secmail"
    /\ Len(CallsOf("getDomainList")) = MaxAttempts
    /\ last.status = 403
    /\ last.upstream_creates

\* C7: after generate_random_email() on 1secmail whose domain fetch got 403
\* on all attempts, with mail.tm creating the account and issuing the
\* token, the provider is mail.tm, the token is held and the address
\* returned is the one of the mail.tm account, on a mail.tm domain.
C7_BlockedGoesToMailtm ==
    BlockedThenCreated
        => /\ mail.provider = "mailtm"
           /\ Truthy(mail.mailtm_token)
           /\ ~last.raised
           /\ last.ret = mail.mailtm_address
           /\ last.ret = mail.email
           /\ IsAddress(last.ret)
           /\ Split(last.ret)[2] = S("mail.tm")
           /\ Split(last.ret)[2] \notin FallbackDomains

C7_Witness == BlockedThenCreated /\ mail.provider = "mailtm"

\* C8: generate_custom_email() on 1secmail while the last observed status
\* is 403 switches to mail.tm and creates the identity there.
C8_CustomSwitchesOn403 ==
    (/\ last.op = "generate_custom_email"
     /\ last.provider = "1secmail"
     /\ mail.last_http_status = 403)
        => (last.creates = 1 /\ CallsOf("mailtm:accounts") # <<>>)

\* C9: a call takes the provider from mail.tm to 1secmail only if it is an
\* identity creation whose mail.tm account or token request failed;
\* get_inbox(), read_email() and get_available_domains() leave it on
\* mail.tm.
C9_MailtmSticky ==
    (last.provider = "mailtm" /\ mail.provider = "1secmail")
        => /\ last.op \in {"generate_random_email", "generate_custom_email"}
           /\ last.creates = 1
           /\ ~last.upstream_creates

C9_Witness ==
    /\ last.op = "get_inbox"
    /\ last.provider = "mailtm"
    /\ CallsOf("mailtm:messages") # <<>>
    /\ mail.last_inbox_ts # last.at
    /\ mail.provider = "mailtm"

\* C10: get_inbox() or read_email() on mail.tm with no token held attempts
\* exactly one mail.tm identity creation before it gives up.
C10_OneCreationWithoutToken ==
    (/\ last.op \in {"get_inbox", "read_email"}
     /\ last.provider = "mailtm"
     /\ ~last.had_token
     /\ IdentitySet
     /\ last.op = "get_inbox" => last.at - mail.last_inbox_ts >= MinFetchInterval)
        => last.creates = 1

-----------------------------------------------------------------------------
(* Properties of one fetch, under FetchSpec *)

\* the attempts the finished fetch made
Made == 1..url_fetch.r.attempts

\* the outcome is one after which the claim allows another attempt
MayBeRetried(o) == ~o.net \/ o.status \in RetryStatuses

\* C11: one _get_json fetch makes at most 3 attempts; every attempt but the
\* last ended with a status in {403, 429, 500, 502, 503, 504} or with a
\* transport failure; a 2xx response or any other status is the last
\* attempt of its fetch.
C11_AtMostThreeAttempts ==
    url_fetch.done
        => /\ url_fetch.r.attempts \in 1..MaxAttempts
           /\ Len(SelectSeq(url_fetch.r.log, LAMBDA e : e = Request))
                 = url_fetch.r.attempts
           /\ \A k \in Made :
                 k < url_fetch.r.attempts => MayBeRetried(url_fetch.outs[k])
           /\ \A k \in Made :
                 (url_fetch.outs[k].net
                    /\ url_fetch.outs[k].status \notin RetryStatuses)
                 => k = url_fetch.r.attempts

C11_Witness ==
    /\ url_fetch.done
    /\ url_fetch.r.attempts = MaxAttempts
    /\ url_fetch.outs[1].status = 429
    /\ url_fetch.outs[2].status = 500
    /\ url_fetch.outs[3].status = 404

RECURSIVE ClaimedLog(_)
ClaimedLog(n) ==
    IF n <= 1 THEN <<Request>>
    ELSE ClaimedLog(n - 1) \o <<Backoff(n - 2), Request>>

\* C13: the only sleeps of a fetch are those before a retry, 1.5 * (n - 1)
\* seconds before attempt n, for every retried status; none follows the
\* last attempt, and the fetch sleeps 4.5 s at most.
C13_SleepsOnlyBeforeRetry ==
    url_fetch.done
        => /\ url_fetch.r.log = ClaimedLog(url_fetch.r.attempts)
           /\ url_fetch.r.slept <= Backoff(0) + Backoff(1)

-----------------------------------------------------------------------------
(* Properties of the object, under Spec *)

\* C15: whenever the provider is 1secmail, no mail.tm token and no mail.tm
\* account id are held.
C15_NoCredentialOn1secmail ==
    mail.provider = "1secmail"
        => (Falsy(mail.mailtm_token) /\ Falsy(mail.mailtm_account_id))

\* C16: read_email() returns the empty result or a message the provider
\* answered with, never a message object whose fields were filled in from
\* a response that holds no message.
C16_ReadNeverPartial ==
    (last.op = "read_email" /\ ~last.raised)
        => \/ last.ret = NoMessage
           \/ (IsDict(last.ret) /\ last.ret.v # <<>> /\ last.ret.v[1] # NoId)

\* the next step is a call of get_inbox or read_email
InboxOrReadStep ==
    last'.n = last.n + 1 /\ last'.op \in {"get_inbox", "read_email"}

\* C17: get_inbox() and read_email() called with login or domain absent
\* send no request, start no account creation, do not raise and leave
\* every field of the object as it was.
C17_NoIdentityNoEffect ==
    [][(InboxOrReadStep /\ ~IdentitySet)
          => (/\ mail' = mail
              /\ last'.calls = <<>>
              /\ last'.creates = 0
              /\ ~last'.raised)]_vars

C17_Witness ==
    /\ last.op \in {"get_inbox", "read_email"}
    /\ ~IdentitySet
    /\ mail.provider = "mailtm"
    /\ Truthy(mail.mailtm_token)
    /\ last.calls = <<>>

\* C18: when the account or the token request of a mail.tm creation fails,
\* the call ends on provider 1secmail, returns an address on one of the
\* three fallback domains, and the failed request is the last it sent.
C18_FallbackAfterFailure ==
    last.failed_at # ""
        => /\ mail.provider = "1secmail"
           /\ ~last.raised
           /\ IsAddress(last.ret)
           /\ Split(last.ret)[2] \in FallbackDomains
           /\ last.ret = mail.email
           /\ last.calls[Len(last.calls)] = last.failed_at

C18_Witness ==
    /\ last.failed_at = "mailtm:token"
    /\ last.provider = "mailtm"
    /\ mail.provider = "1secmail"
    /\ Len(CallsOf("mailtm:token")) = 1

\* the domain request of the last call failed: no list from 1secmail, an
\* exception on mail.tm
DomainsFailed ==
    IF last.provider = "1secmail" THEN ~IsList(last.fetched) ELSE ~last.domains_ok

\* C19: get_available_domains() never raises and returns the empty list
\* whenever its request fails, on both providers.
C19_DomainsEmptyOnFailure ==
    last.op = "get_available_domains"
        => (~last.raised /\ (DomainsFailed => last.ret = <<>>))

C19_Witness ==
    /\ last.op = "get_available_domains"
    /\ last.provider = "1secmail"
    /\ last.status = 200
    /\ DomainsFailed
    /\ last.ret = <<>>

-----------------------------------------------------------------------------
(* C14: in every reachable state in which email, login and domain are all  *)
(* set, email is login + "@" + domain; this holds after address            *)
(* generation, mail.tm account creation, the fallback, a failover in       *)
(* get_inbox and the restore from the session                              *)

Consistent(m) ==
    (m.email # None /\ m.login # None /\ m.domain # None)
        => m.email = Address(m.login, m.domain)

C14_AddressIsLoginAtDomain == Consistent(mail) /\ Consistent(Restored)

-----------------------------------------------------------------------------
(* C20: save_mail_to_session followed by get_mail_instance reconstructs    *)
(* the identity that was persisted: address, local part, domain, provider *)
(* and the whole mail.tm credential, bearer token and account identifier   *)

RoundTrip(m) == get_mail_instance(save_mail_to_session(m))

C20_RoundTripKeepsIdentity ==
    LET m == RoundTrip(mail) IN
    /\ m.email = mail.email
    /\ m.login = mail.login
    /\ m.domain = mail.domain
    /\ m.provider = mail.provider
    /\ m.mailtm_token = mail.mailtm_token
    /\ m.mailtm_account_id = mail.mailtm_account_id

-----------------------------------------------------------------------------
(* C21: the inbox cache and its fetch timestamp travel with the session:   *)
(* of two /inbox requests of one session less than 6 seconds apart the     *)
(* second causes no upstream listing call, and an /inbox request whose     *)
(* listing fails returns the messages of the earlier successful one        *)

\* the last request was an /inbox whose listing was fetched and stored
ListedAndStored ==
    /\ last.op = "get_inbox" /\ ~last.raised
    /\ last.calls # <<>>
    /\ mail.last_inbox_ts = last.at

C21_CacheTravelsWithSession ==
    [][(ListedAndStored /\ GetInboxStep)
          => /\ (now - last.at < MinFetchInterval) => last'.calls = <<>>
             /\ (~last'.raised /\ mail'.last_inbox_ts # now)
                    => last'.ret = mail.last_inbox]_vars

-----------------------------------------------------------------------------
(* C22: when requests of one session race, the persisted session is always *)
(* the state one request wrote: address, local part, domain, provider and  *)
(* token all come from the same request, never a mixture                   *)

\* the request in the slot r is answered in this step
Responds(r) == inflight[r].pc = "handled" /\ inflight'[r].pc = "idle"

-----------------------------------------------------------------------------
(* C23: what is done for one session never changes the identity, provider, *)
(* credential or cache of another session, however the requests of         *)
(* different sessions interleave                                           *)

C23_SessionsIsolated ==
    [][/\ \A c \in Clients :
            cookies'[c] # cookies[c]
              => \E r \in Requests : Responds(r) /\ inflight[r].client = c
       /\ \A r, q \in Requests :
            (r # q /\ inflight'[r] # inflight[r]) => inflight'[q] = inflight[q]]_vars

\* both clients hold an identity of their own while a request of c2 is
\* being served
C23_Witness ==
    /\ cookies["c1"].saved /\ cookies["c2"].saved
    /\ cookies["c1"].mail_email # cookies["c2"].mail_email
    /\ \E r \in Requests :
          inflight[r].pc = "handled" /\ inflight[r].client = "c2"

-----------------------------------------------------------------------------
(* C24: a listing that succeeds replaces the cache with exactly the list   *)
(* it fetched (an empty list gives the cache []) and sets the fetch        *)
(* timestamp; a listing that fails leaves the cached list and the          *)
(* timestamp as they were                                                  *)

-----------------------------------------------------------------------------
(* C25: after every operation that returns, provider mail.tm implies that  *)
(* the identity was created on mail.tm: a token is held and the address is *)
(* the address of the mail.tm account the token was issued for             *)

C25_MailtmIdentityCreated ==
    (last.n > 0 /\ ~last.raised /\ mail.provider = "mailtm")
        => (Truthy(mail.mailtm_token) /\ mail.email = mail.mailtm_address)

-----------------------------------------------------------------------------
(* C26: after _get_json returns, last_http_status is the status of the     *)
(* final attempt of that fetch, and absent when the final attempt got no   *)
(* HTTP response; it is never the status of an earlier attempt             *)

\* what the final attempt of the fetch met
FinalAttempt == url_fetch.outs[url_fetch.r.attempts]

C26_StatusOfFinalAttempt ==
    url_fetch.done
        => url_fetch.r.status = (IF FinalAttempt.net THEN FinalAttempt.status
                                 ELSE NoStatus)

-----------------------------------------------------------------------------
(* C27: wait_for_email starts no get_inbox() call once timeout seconds     *)
(* have passed since it began, and returns None if no poll before the      *)
(* deadline saw the inbox grow                                             *)

C27_StopsAtDeadlineWithNone ==
    /\ wait.polls > 0 => wait.polled_at - wait.start < wait.timeout
    /\ (wait.pc = "done" /\ ~wait.grew)
          => (~wait.raised /\ wait.ret = NoMail)

-----------------------------------------------------------------------------
(* C28: wait_for_email returns a message only if the message arrived after *)
(* the wait began; when the inbox or the cached list already holds         *)
(* messages at the first poll and nothing arrives, it returns None         *)

C28_OnlyNewMessages ==
    (wait.pc = "done" /\ ~wait.raised /\ wait.ret # NoMail)
        => wait.ret > wait.held

-----------------------------------------------------------------------------
(* C29: a paid-plan user is issued at most 2 API keys per calendar day     *)
(* under every interleaving of their requests, and a request made after    *)
(* the second key of the day is refused and stores nothing                 *)

C29_AtMostTwoKeysPerDay ==
    /\ \A d \in 1..MaxDay : issued[d] <= DailyLimit
    /\ \A r \in Requests :
          (keyreq[r].pc = "checked" /\ keyreq[r].day = today)
              => keyreq[r].seen < DailyLimit

=============================================================================
